---------------------------- MODULE Spec2Model ----------------------------
(***************************************************************************)
(* A model of the risk / recommendation engine (backend/models/risk.py),   *)
(* of the sentiment aggregator (backend/models/sentiment.py) and of the    *)
(* two HTTP handlers that compose them (backend/app.py).                   *)
(*                                                                         *)
(* Python floats are modelled as fixed-point integers:                     *)
(*   prices            whole units                                         *)
(*   daily returns     units of 1/RetScale                                 *)
(*   volatility        units of 1/VolScale                                 *)
(*   trend             units of 1/TrendScale                               *)
(*   confidences       units of 1/ConfScale                                *)
(*   sentiment scores  units of 1/SentScale                                *)
(* Every grid is finer than the rounding the code applies to the value it  *)
(* holds, so that rounding is a real, lossy conversion in the model.       *)
(* The mean inside numpy.std is computed in floating point: every sum and  *)
(* the quotient are rounded to the nearest value with MantBits significant *)
(* bits, ties to even (float64 has 53; the model narrows the significand   *)
(* so that the values fit TLC's integers).                                 *)
(* A nullable value is a sequence: << >> is None, <<x>> is the value x.    *)
(***************************************************************************)
EXTENDS Integers, Sequences, FiniteSets

VARIABLES
    call,          \* the operation last invoked, with its arguments
    ret,           \* what that operation returned
    modelLoaded    \* sentiment._MODEL / _TOKENIZER are cached (not None)

vars == <<call, ret, modelLoaded>>

---------------------------------------------------------------------------
(* Bounds of the model *)

MaxLen == 4          \* longest price series passed to the risk module
MaxArticles == 3     \* most articles handed to the sentiment aggregator
MantBits == 10       \* significant bits of a float of the model

---------------------------------------------------------------------------
(* Fixed-point grids *)

RetScale == 10^4
VolScale == 10^5
TrendScale == 10^7
ConfScale == 10^5

RECURSIVE Factorial(_)
Factorial(n) == IF n <= 1 THEN 1 ELSE n * Factorial(n - 1)

\* The mean of n <= MaxArticles confidences, and (mean + 1) / 2, are exact
\* on these grids.
MeanScale == ConfScale * Factorial(MaxArticles)
SentScale == 2 * MeanScale

Null == << >>
Some(x) == <<x>>

Abs(a) == IF a < 0 THEN -a ELSE a
Sign(a) == IF a < 0 THEN -1 ELSE 1
Min(a, b) == IF a <= b THEN a ELSE b

\* a / b truncated toward zero (b # 0)
Quot(a, b) == Sign(a) * Sign(b) * (Abs(a) \div Abs(b))

\* floor(r * 10^k / b) for 0 <= r < b, one decimal digit at a time
RECURSIVE LongDiv(_, _, _)
LongDiv(r, b, k) ==
    IF k = 0 THEN 0
    ELSE ((r * 10) \div b) * 10^(k - 1) + LongDiv((r * 10) % b, b, k - 1)

\* a * 10^k / b truncated toward zero (b # 0)
QuotScaled(a, b, k) ==
    Sign(a) * Sign(b)
        * ((Abs(a) \div Abs(b)) * 10^k + LongDiv(Abs(a) % Abs(b), Abs(b), k))

\* Python's round(): x, held in units of 1/(g*c), rounded to the nearest
\* multiple of g units, ties to the even multiple; the result counts
\* multiples of g.
PyRound(x, g) ==
    LET q == x \div g
        r == x % g
    IN  IF 2 * r < g THEN q
        ELSE IF 2 * r > g THEN q + 1
        ELSE IF q % 2 = 0 THEN q ELSE q + 1

RECURSIVE SeqSum(_)
SeqSum(s) == IF s = << >> THEN 0 ELSE Head(s) + SeqSum(Tail(s))

\* the spacing of the floats around the magnitude a >= 0, in grid units
RECURSIVE Ulp(_)
Ulp(a) == IF a < 2^MantBits THEN 1 ELSE 2 * Ulp(a \div 2)

\* a / b (b > 0) rounded to the nearest float, ties to the even significand
FlQuot(a, b) ==
    LET u == Ulp(Abs(a) \div b)
    IN  Sign(a) * u * PyRound(Abs(a), b * u)

\* a float sum, accumulated left to right and rounded after every addition
RECURSIVE FlSum(_, _)
FlSum(acc, s) ==
    IF s = << >> THEN acc ELSE FlSum(FlQuot(acc + Head(s), 1), Tail(s))

\* floor(sqrt(n)), by bisection on lo^2 <= n < hi^2
RECURSIVE SqrtSearch(_, _, _)
SqrtSearch(n, lo, hi) ==
    IF hi - lo <= 1 THEN lo
    ELSE LET mid == (lo + hi) \div 2
         IN  IF mid * mid <= n THEN SqrtSearch(n, mid, hi)
             ELSE SqrtSearch(n, lo, mid)

ISqrt(n) == SqrtSearch(n, 0, 46341)

\* floor(10 * sqrt(n)): the integer root and one more decimal digit
Sqrt10(n) ==
    LET v == ISqrt(n)
        t == CHOOSE d \in 0..9 :
                /\ 20 * v * d + d * d <= 100 * (n - v * v)
                /\ \A e \in (d + 1)..9 : 20 * v * e + e * e > 100 * (n - v * v)
    IN  10 * v + t

---------------------------------------------------------------------------
(* backend/models/risk.py *)

\* mutant: a zero previous price counted as a total loss (-1.0)
compute_daily_returns_ZeroPrevAsLoss(prices) ==
    [i \in 1..(Len(prices) - 1) |->
        LET prev == prices[i]
            cur == prices[i + 1]
        IN  IF prev = 0 THEN -RetScale
            ELSE Quot(cur * RetScale, prev) - RetScale]

compute_daily_returns(prices) ==
    [i \in 1..(Len(prices) - 1) |->
        LET prev == prices[i]
            cur == prices[i + 1]
        IN  IF prev = 0 THEN 0
            ELSE Quot(cur * RetScale, prev) - RetScale]

\* the mean numpy.std subtracts: sum(xs) / n in floating point
np_arrmean(xs) == FlQuot(FlSum(0, xs), Len(xs))

\* numpy.std(xs, ddof): returns are on the RetScale grid, the result on the
\* VolScale = 10 * RetScale grid
np_std(xs, ddof) ==
    LET n == Len(xs)
        mean == np_arrmean(xs)
        sq == [i \in 1..n |-> (xs[i] - mean) * (xs[i] - mean)]
    IN  Sqrt10(Quot(SeqSum(sq), n - ddof))

\* mutant: the population standard deviation (ddof = 0) whatever the length
compute_volatility_PopulationStd(prices) ==
    IF Len(prices) < 2 THEN 0
    ELSE np_std(compute_daily_returns(prices), 0)

compute_volatility(prices) ==
    IF Len(prices) < 2 THEN 0
    ELSE LET returns == compute_daily_returns(prices)
         IN  IF Len(returns) > 1 THEN np_std(returns, 1)
             ELSE np_std(returns, 0)

DEFAULT_LOW_THRESHOLD == (12 * VolScale) \div 1000
DEFAULT_HIGH_THRESHOLD == (30 * VolScale) \div 1000

\* mutant: the lower threshold taken inclusively into Low
risk_level_from_volatility_InclusiveLow(vol, low_threshold, high_threshold) ==
    IF vol <= low_threshold THEN "Low"
    ELSE IF vol < high_threshold THEN "Medium"
    ELSE "High"

risk_level_from_volatility(vol, low_threshold, high_threshold) ==
    IF vol < low_threshold THEN "Low"
    ELSE IF vol < high_threshold THEN "Medium"
    ELSE "High"

\* mutant: the window taken from the start of the series (prices[:n])
compute_short_term_trend_FromStart(prices, days) ==
    LET n == Min(days, Len(prices))
    IN  IF n < 2 THEN 0
        ELSE
          LET y == SubSeq(prices, 1, n)
              x == [i \in 1..n |-> i - 1]
              sx == SeqSum(x)
              sy == SeqSum(y)
              denom == n * SeqSum([i \in 1..n |-> x[i] * x[i]]) - sx * sx
              cov == n * SeqSum([i \in 1..n |-> x[i] * y[i]]) - sx * sy
          IN  IF denom = 0 THEN 0
              ELSE IF sy # 0 THEN QuotScaled(cov * n, denom * sy, 7)
              ELSE QuotScaled(cov, denom, 7)

\* slope = sum((x - x_mean)(y - y_mean)) / sum((x - x_mean)^2), both sums
\* taken n-fold so that they stay integers:
\*   n * sum((x - x_mean)(y - y_mean)) = n * sum(x y) - sum(x) sum(y)
\*   n * sum((x - x_mean)^2)           = n * sum(x^2) - sum(x)^2
compute_short_term_trend(prices, days) ==
    LET n == Min(days, Len(prices))
    IN  IF n < 2 THEN 0
        ELSE
          LET y == SubSeq(prices, Len(prices) - n + 1, Len(prices))
              x == [i \in 1..n |-> i - 1]
              sx == SeqSum(x)
              sy == SeqSum(y)
              denom == n * SeqSum([i \in 1..n |-> x[i] * x[i]]) - sx * sx
              cov == n * SeqSum([i \in 1..n |-> x[i] * y[i]]) - sx * sy
          IN  IF denom = 0 THEN 0
              ELSE IF sy # 0 THEN QuotScaled(cov * n, denom * sy, 7)
              ELSE QuotScaled(cov, denom, 7)

\* thresholds of recommend_action, on the grids of their arguments
SentThreshold(hundredths) == (hundredths * SentScale) \div 100
TrendThreshold(tenThousandths) == (tenThousandths * TrendScale) \div 10000

\* mutant: the top sentiment bucket taken inclusively (>= 0.70)
SentimentScore_InclusiveTop(overall_sentiment_score) ==
    LET sent == IF overall_sentiment_score # Null
                THEN overall_sentiment_score[1] ELSE SentThreshold(50)
    IN  IF sent >= SentThreshold(70) THEN 3
        ELSE IF sent > SentThreshold(55) THEN 2
        ELSE IF sent > SentThreshold(52) THEN 1
        ELSE IF sent < SentThreshold(30) THEN -3
        ELSE IF sent < SentThreshold(45) THEN -2
        ELSE IF sent < SentThreshold(48) THEN -1
        ELSE 0

\* mutant: a missing sentiment defaults to 0.6 instead of 0.5
SentimentScore_WrongPrior(overall_sentiment_score) ==
    LET sent == IF overall_sentiment_score # Null
                THEN overall_sentiment_score[1] ELSE SentThreshold(60)
    IN  IF sent > SentThreshold(70) THEN 3
        ELSE IF sent > SentThreshold(55) THEN 2
        ELSE IF sent > SentThreshold(52) THEN 1
        ELSE IF sent < SentThreshold(30) THEN -3
        ELSE IF sent < SentThreshold(45) THEN -2
        ELSE IF sent < SentThreshold(48) THEN -1
        ELSE 0

\* lines 105-122: the score after the sentiment block
SentimentScore(overall_sentiment_score) ==
    LET sent == IF overall_sentiment_score # Null
                THEN overall_sentiment_score[1] ELSE SentThreshold(50)
    IN  IF sent > SentThreshold(70) THEN 3
        ELSE IF sent > SentThreshold(55) THEN 2
        ELSE IF sent > SentThreshold(52) THEN 1
        ELSE IF sent < SentThreshold(30) THEN -3
        ELSE IF sent < SentThreshold(45) THEN -2
        ELSE IF sent < SentThreshold(48) THEN -1
        ELSE 0

\* lines 124-137: what the trend block adds to the score
TrendScore(short_term_trend) ==
    IF short_term_trend > TrendThreshold(50) THEN 3
    ELSE IF short_term_trend > TrendThreshold(20) THEN 2
    ELSE IF short_term_trend > TrendThreshold(5) THEN 1
    ELSE IF short_term_trend < -TrendThreshold(50) THEN -3
    ELSE IF short_term_trend < -TrendThreshold(20) THEN -2
    ELSE IF short_term_trend < -TrendThreshold(5) THEN -1
    ELSE 0

\* mutant: High risk subtracts 2 whatever the running score
RiskAdjust_FlatHighPenalty(score, volatility) ==
    LET risk == risk_level_from_volatility(volatility,
                    DEFAULT_LOW_THRESHOLD, DEFAULT_HIGH_THRESHOLD)
    IN  IF risk = "High" THEN score - 2
        ELSE IF risk = "Low"
        THEN (IF score > 0 THEN score + 1 ELSE score)
        ELSE score

\* mutant: Low risk adds 1 whatever the running score
RiskAdjust_LowAlwaysBoost(score, volatility) ==
    LET risk == risk_level_from_volatility(volatility,
                    DEFAULT_LOW_THRESHOLD, DEFAULT_HIGH_THRESHOLD)
    IN  IF risk = "High"
        THEN (IF score > 0 THEN score - 2 ELSE score - 1)
        ELSE IF risk = "Low" THEN score + 1
        ELSE score

\* mutant: High risk subtracts 3 from a positive running score
RiskAdjust_HighPenalty3(score, volatility) ==
    LET risk == risk_level_from_volatility(volatility,
                    DEFAULT_LOW_THRESHOLD, DEFAULT_HIGH_THRESHOLD)
    IN  IF risk = "High"
        THEN (IF score > 0 THEN score - 3 ELSE score - 1)
        ELSE IF risk = "Low"
        THEN (IF score > 0 THEN score + 1 ELSE score)
        ELSE score

\* lines 139-151: the score after the volatility / risk adjustment
RiskAdjust(score, volatility) ==
    LET risk == risk_level_from_volatility(volatility,
                    DEFAULT_LOW_THRESHOLD, DEFAULT_HIGH_THRESHOLD)
    IN  IF risk = "High"
        THEN (IF score > 0 THEN score - 2 ELSE score - 1)
        ELSE IF risk = "Low"
        THEN (IF score > 0 THEN score + 1 ELSE score)
        ELSE score

\* lines 153-159: the final decision
Decision(score) ==
    IF score >= 2 THEN "Buy"
    ELSE IF score <= -2 THEN "Sell"
    ELSE "Hold"

\* the local variable `score` when recommend_action returns
recommend_score(volatility, overall_sentiment_score, short_term_trend) ==
    RiskAdjust(SentimentScore(overall_sentiment_score)
                 + TrendScore(short_term_trend), volatility)

recommend_action(volatility, overall_sentiment_score, short_term_trend) ==
    Decision(recommend_score(volatility, overall_sentiment_score,
                             short_term_trend))

\* round(vol * 100, 2): hundredths of a percent
DisplayVolatility(vol) == PyRound(vol, VolScale \div 10^4)
\* round(trend, 6): millionths
DisplayTrend(trend) == PyRound(trend, TrendScale \div 10^6)

\* mutant: level and recommendation computed from the displayed values
assemble_risk_report_FromDisplayed(historical_prices, overall_sentiment_score) ==
    IF historical_prices = << >>
    THEN [volatility |-> Null,
          risk_level |-> Null,
          short_term_trend |-> Null,
          recommendation |-> "Hold",
          note |-> Some("No historical prices provided")]
    ELSE LET vol == DisplayVolatility(compute_volatility(historical_prices))
                        * (VolScale \div 10^4)
             level == risk_level_from_volatility(vol,
                          DEFAULT_LOW_THRESHOLD, DEFAULT_HIGH_THRESHOLD)
             trend == DisplayTrend(
                          compute_short_term_trend(historical_prices, 5))
                        * (TrendScale \div 10^6)
             rec == recommend_action(vol, overall_sentiment_score, trend)
         IN  [volatility |-> Some(DisplayVolatility(vol)),
              risk_level |-> Some(level),
              short_term_trend |-> Some(DisplayTrend(trend)),
              recommendation |-> rec,
              note |-> Null]

\* mutant: no short-circuit for an empty series
assemble_risk_report_NoShortCircuit(historical_prices, overall_sentiment_score) ==
    LET vol == compute_volatility(historical_prices)
        level == risk_level_from_volatility(vol,
                     DEFAULT_LOW_THRESHOLD, DEFAULT_HIGH_THRESHOLD)
        trend == compute_short_term_trend(historical_prices, 5)
        rec == recommend_action(vol, overall_sentiment_score, trend)
    IN  [volatility |-> Some(DisplayVolatility(vol)),
         risk_level |-> Some(level),
         short_term_trend |-> Some(DisplayTrend(trend)),
         recommendation |-> rec,
         note |-> Null]

assemble_risk_report(historical_prices, overall_sentiment_score) ==
    IF historical_prices = << >>
    THEN [volatility |-> Null,
          risk_level |-> Null,
          short_term_trend |-> Null,
          recommendation |-> "Hold",
          note |-> Some("No historical prices provided")]
    ELSE LET vol == compute_volatility(historical_prices)
             level == risk_level_from_volatility(vol,
                          DEFAULT_LOW_THRESHOLD, DEFAULT_HIGH_THRESHOLD)
             trend == compute_short_term_trend(historical_prices, 5)
             rec == recommend_action(vol, overall_sentiment_score, trend)
         IN  [volatility |-> Some(DisplayVolatility(vol)),
              risk_level |-> Some(level),
              short_term_trend |-> Some(DisplayTrend(trend)),
              recommendation |-> rec,
              note |-> Null]

---------------------------------------------------------------------------
(* backend/models/sentiment.py *)

\* The classifier is an external collaborator: `classifier` is what it does
\* in this call.  outcome "load_error": loading the model raises (imports
\* missing, weights unavailable); "predict_error": inference raises; "ok":
\* it returns `predictions`, one (label, score) per text.

\* _load_model: the cached model is returned without loading
load_model(loaded, classifier) ==
    IF loaded THEN [raised |-> FALSE, loaded |-> TRUE]
    ELSE IF classifier.outcome = "load_error"
    THEN [raised |-> TRUE, loaded |-> FALSE]
    ELSE [raised |-> FALSE, loaded |-> TRUE]

predict_texts(texts, loaded, classifier) ==
    LET m == load_model(loaded, classifier)
    IN  IF m.raised
        THEN [raised |-> TRUE, results |-> << >>, loaded |-> m.loaded]
        ELSE IF classifier.outcome = "predict_error"
        THEN [raised |-> TRUE, results |-> << >>, loaded |-> m.loaded]
        ELSE [raised |-> FALSE,
              results |-> [i \in 1..Len(texts) |-> classifier.predictions[i]],
              loaded |-> m.loaded]

\* lines 165-170: the signed score of one prediction
SignedScore(prediction) ==
    IF prediction.label = "positive" THEN prediction.score
    ELSE IF prediction.label = "negative" THEN -prediction.score
    ELSE 0

\* float(np.mean(signed_scores)), on the MeanScale grid
np_mean(signed_scores) ==
    IF signed_scores = << >> THEN 0
    ELSE Quot(SeqSum(signed_scores) * (MeanScale \div ConfScale),
              Len(signed_scores))

LabelThreshold == (15 * MeanScale) \div 100

\* mutant: the label thresholds taken strictly
OverallLabel_Strict(mean_signed) ==
    IF mean_signed > LabelThreshold THEN "positive"
    ELSE IF mean_signed < -LabelThreshold THEN "negative"
    ELSE "neutral"

\* lines 176-182
OverallLabel(mean_signed) ==
    IF mean_signed >= LabelThreshold THEN "positive"
    ELSE IF mean_signed <= -LabelThreshold THEN "negative"
    ELSE "neutral"

\* round(x, 4) of a value on the ConfScale grid, and on the SentScale grid
RoundConf4(x) == PyRound(x, ConfScale \div 10^4) * (ConfScale \div 10^4)
RoundSent4(x) == PyRound(x, SentScale \div 10^4) * (SentScale \div 10^4)

\* lines 158-186: per-article records and the aggregate.  mean_signed and
\* overall_score are the function's locals when it returns.
Aggregate(articles, predictions) ==
    LET per_article ==
            [i \in 1..Min(Len(articles), Len(predictions)) |->
                [article |-> articles[i],
                 sentiment |-> [label |-> predictions[i].label,
                                score |-> RoundConf4(predictions[i].score)]]]
        signed_scores ==
            [i \in 1..Min(Len(articles), Len(predictions)) |->
                SignedScore(predictions[i])]
        mean_signed == np_mean(signed_scores)
        overall_score == mean_signed + MeanScale
    IN  [value |-> [per_article |-> per_article,
                    overall |-> [label |-> Some(OverallLabel(mean_signed)),
                                 score |-> Some(RoundSent4(overall_score))]],
         mean_signed |-> Some(mean_signed),
         overall_score |-> Some(overall_score)]

EmptyAnalysis ==
    [per_article |-> << >>, overall |-> [label |-> Null, score |-> Null]]

\* mutant: no early return for an empty article list
analyze_headlines_NoEarlyReturn(articles, loaded, classifier) ==
    LET p == predict_texts(articles, loaded, classifier)
        a == Aggregate(articles, p.results)
    IN  IF p.raised
        THEN [raised |-> TRUE, value |-> EmptyAnalysis, loaded |-> p.loaded,
              predicted |-> TRUE, mean_signed |-> Null,
              overall_score |-> Null]
        ELSE [raised |-> FALSE, value |-> a.value, loaded |-> p.loaded,
              predicted |-> TRUE, mean_signed |-> a.mean_signed,
              overall_score |-> a.overall_score]

\* analyze_headlines.  `loaded` is the module cache on entry; the result
\* carries the cache on exit, whether _predict_texts was called, and
\* whether the call raised.  The texts are the articles themselves (the
\* title / description / url fallback is not modelled).
analyze_headlines(articles, loaded, classifier) ==
    IF articles = << >>
    THEN [raised |-> FALSE, value |-> EmptyAnalysis, loaded |-> loaded,
          predicted |-> FALSE, mean_signed |-> Null, overall_score |-> Null]
    ELSE LET p == predict_texts(articles, loaded, classifier)
             a == Aggregate(articles, p.results)
         IN  IF p.raised
             THEN [raised |-> TRUE, value |-> EmptyAnalysis,
                   loaded |-> p.loaded, predicted |-> TRUE,
                   mean_signed |-> Null, overall_score |-> Null]
             ELSE [raised |-> FALSE, value |-> a.value, loaded |-> p.loaded,
                   predicted |-> TRUE, mean_signed |-> a.mean_signed,
                   overall_score |-> a.overall_score]

---------------------------------------------------------------------------
(* backend/app.py *)

Letters == {"A", "P", "L"}

\* a ticker is the sequence of its characters, after upper().strip()
validate_ticker(ticker) ==
    IF ticker = << >> THEN [valid |-> FALSE, msg |-> "Ticker symbol required"]
    ELSE IF \E i \in 1..Len(ticker) : ticker[i] \notin Letters
    THEN [valid |-> FALSE, msg |-> "Ticker symbol must contain only letters"]
    ELSE IF Len(ticker) > 10
    THEN [valid |-> FALSE, msg |-> "Ticker symbol too long"]
    ELSE [valid |-> TRUE, msg |-> ""]

ErrorResponse(status, error, loaded) ==
    [status |-> status, body |-> [error |-> error], loaded |-> loaded,
     predicted |-> FALSE]

\* lines 220-229 of risk(): the sentiment step, which swallows every
\* exception.  req.news is what get_news_for_ticker does: it raises, or
\* returns req.news.articles.
RiskSentimentStep(req, loaded) ==
    IF req.news.raises
    THEN [score |-> Null, loaded |-> loaded, predicted |-> FALSE]
    ELSE IF req.news.articles = << >>
    THEN [score |-> Null, loaded |-> loaded, predicted |-> FALSE]
    ELSE LET r == analyze_headlines(req.news.articles, loaded, req.classifier)
         IN  IF r.raised
             THEN [score |-> Null, loaded |-> r.loaded,
                   predicted |-> r.predicted]
             ELSE [score |-> r.value.overall.score, loaded |-> r.loaded,
                   predicted |-> r.predicted]

\* mutant: an exception of the sentiment step reaches the handler's outer
\* `except Exception` and fails the request
risk_SentimentErrorFails(req, loaded) ==
    IF ~req.days.ok
    THEN ErrorResponse(400, "Invalid parameter", loaded)
    ELSE IF ~validate_ticker(req.ticker).valid
    THEN ErrorResponse(400, validate_ticker(req.ticker).msg, loaded)
    ELSE IF req.days.value < 7 \/ req.days.value > 365
    THEN ErrorResponse(400, "Days must be between 7 and 365", loaded)
    ELSE IF req.chart_data = Null \/ req.chart_data = Some(<< >>)
    THEN ErrorResponse(404, "Invalid ticker or insufficient data", loaded)
    ELSE IF req.news.raises
    THEN ErrorResponse(500, "Internal server error", loaded)
    ELSE IF /\ req.news.articles # << >>
            /\ analyze_headlines(req.news.articles, loaded,
                                 req.classifier).raised
    THEN ErrorResponse(500, "Internal server error",
             analyze_headlines(req.news.articles, loaded,
                               req.classifier).loaded)
    ELSE
      LET historical_prices == req.chart_data[1]
          s == RiskSentimentStep(req, loaded)
          risk_report == assemble_risk_report(historical_prices, s.score)
      IN  [status |-> 200,
           body |-> [ticker |-> req.ticker,
                     current_price |-> req.current_price,
                     volatility |-> risk_report.volatility,
                     risk_level |-> risk_report.risk_level,
                     short_term_trend |-> risk_report.short_term_trend,
                     recommendation |-> risk_report.recommendation,
                     sentiment_score_used |-> s.score],
           loaded |-> s.loaded,
           predicted |-> s.predicted]

\* GET /api/risk.  req.days is the parsed query parameter (ok = FALSE: int()
\* raises ValueError); req.chart_data and req.current_price are what the
\* data fetcher returns (None on any failure).
risk(req, loaded) ==
    IF ~req.days.ok
    THEN ErrorResponse(400, "Invalid parameter", loaded)
    ELSE IF ~validate_ticker(req.ticker).valid
    THEN ErrorResponse(400, validate_ticker(req.ticker).msg, loaded)
    ELSE IF req.days.value < 7 \/ req.days.value > 365
    THEN ErrorResponse(400, "Days must be between 7 and 365", loaded)
    ELSE IF req.chart_data = Null \/ req.chart_data = Some(<< >>)
    THEN ErrorResponse(404, "Invalid ticker or insufficient data", loaded)
    ELSE
      LET historical_prices == req.chart_data[1]
          s == RiskSentimentStep(req, loaded)
          risk_report == assemble_risk_report(historical_prices, s.score)
      IN  [status |-> 200,
           body |-> [ticker |-> req.ticker,
                     current_price |-> req.current_price,
                     volatility |-> risk_report.volatility,
                     risk_level |-> risk_report.risk_level,
                     short_term_trend |-> risk_report.short_term_trend,
                     recommendation |-> risk_report.recommendation,
                     sentiment_score_used |-> s.score],
           loaded |-> s.loaded,
           predicted |-> s.predicted]

\* GET /api/sentiment.  req.limit and req.days_back are the parsed query
\* parameters; req.news.raises is a NewsAPIError.
sentiment(req, loaded) ==
    IF ~req.limit.ok \/ ~req.days_back.ok
    THEN ErrorResponse(400, "Invalid parameter", loaded)
    ELSE IF ~validate_ticker(req.ticker).valid
    THEN ErrorResponse(400, validate_ticker(req.ticker).msg, loaded)
    ELSE IF req.limit.value < 1 \/ req.limit.value > 50
    THEN ErrorResponse(400, "Limit must be between 1 and 50", loaded)
    ELSE IF req.days_back.value < 1 \/ req.days_back.value > 30
    THEN ErrorResponse(400, "Days back must be between 1 and 30", loaded)
    ELSE IF req.news.raises
    THEN ErrorResponse(500, "Failed to fetch news articles", loaded)
    ELSE IF req.news.articles = << >>
    THEN [status |-> 200,
          body |-> [ticker |-> req.ticker,
                    per_article |-> << >>,
                    overall |-> [label |-> Null, score |-> Null],
                    message |-> "No news articles found for this ticker"],
          loaded |-> loaded,
          predicted |-> FALSE]
    ELSE
      LET r == analyze_headlines(req.news.articles, loaded, req.classifier)
      IN  IF r.raised
          THEN [status |-> 500,
                body |-> [error |-> "Sentiment analysis failed"],
                loaded |-> r.loaded, predicted |-> r.predicted]
          ELSE [status |-> 200,
                body |-> [ticker |-> req.ticker,
                          per_article |-> r.value.per_article,
                          overall |-> r.value.overall],
                loaded |-> r.loaded, predicted |-> r.predicted]

---------------------------------------------------------------------------
(* Inputs *)

Prices == {0, 9995, 10000, 10424}

PriceSeries == UNION {[1..n -> Prices] : n \in 0..MaxLen}

\* prices that grow by exactly 7.5 % a day (40^3 * (43/40)^k), and their
\* prefixes: every daily return is the same non-zero value
GrowthSeries ==
    {SubSeq(<<64000, 68800, 73960, 79507>>, 1, n) : n \in 2..Min(4, MaxLen)}

\* prices of either sign and zero, small enough for every quotient of the
\* returns and of the trend to stay within TLC's integers
SignedPrices == {-1, 0, 1, 3}

SignedSeries == UNION {[1..n -> SignedPrices] : n \in 0..MaxLen}

\* the `days` argument of compute_short_term_trend (5 is what
\* assemble_risk_report passes)
Windows == {0, 1, 2, 3, 5}

VolThresholds == {DEFAULT_LOW_THRESHOLD, (20 * VolScale) \div 1000,
                  DEFAULT_HIGH_THRESHOLD}

Vols == {0, VolScale} \cup {t + d : t \in VolThresholds, d \in {-1, 0, 1}}

SentValues ==
    {0, SentScale \div 2, SentScale}
        \cup {SentThreshold(h) + d : h \in {30, 45, 48, 52, 55, 70},
                                     d \in {-1, 0, 1}}

Sentiments == {Null} \cup {Some(s) : s \in SentValues}

Trends ==
    {0, -TrendScale, TrendScale}
        \cup {sg * TrendThreshold(k) + d : sg \in {-1, 1}, k \in {5, 20, 50},
                                          d \in {-1, 0, 1}}

---------------------------------------------------------------------------
(* State machine.  The initial state holds a call that is about to be made *)
(* (the operation and its arguments); the operation's action runs it to    *)
(* completion and stores what it returned.                                 *)

Pending == [done |-> FALSE]

RiskModuleCalls ==
    {[op |-> "risk_level_from_volatility", vol |-> vol,
      low_threshold |-> low, high_threshold |-> high] :
        vol \in Vols, low \in VolThresholds, high \in VolThresholds}
    \cup
    {[op |-> "recommend_action", volatility |-> vol,
      overall_sentiment_score |-> s, short_term_trend |-> t] :
        vol \in Vols, s \in Sentiments, t \in Trends}
    \cup
    {[op |-> "assemble_risk_report", historical_prices |-> prices,
      overall_sentiment_score |-> s] :
        prices \in PriceSeries, s \in Sentiments}
    \cup
    {[op |-> "compute_daily_returns", prices |-> prices] :
        prices \in SignedSeries}
    \cup
    {[op |-> "compute_volatility", prices |-> prices] :
        prices \in PriceSeries \cup GrowthSeries}
    \cup
    {[op |-> "compute_short_term_trend", prices |-> prices, days |-> d] :
        prices \in SignedSeries, d \in Windows}

Init ==
    /\ call \in RiskModuleCalls
    /\ ret = Pending
    /\ modelLoaded = FALSE

CallRiskLevel ==
    /\ call.op = "risk_level_from_volatility"
    /\ ~ret.done
    /\ ret' = [done |-> TRUE,
               value |-> risk_level_from_volatility(call.vol,
                             call.low_threshold, call.high_threshold)]
    /\ UNCHANGED <<call, modelLoaded>>

CallRecommendAction ==
    /\ call.op = "recommend_action"
    /\ ~ret.done
    /\ ret' = [done |-> TRUE,
               value |-> recommend_action(call.volatility,
                             call.overall_sentiment_score,
                             call.short_term_trend),
               score |-> recommend_score(call.volatility,
                             call.overall_sentiment_score,
                             call.short_term_trend)]
    /\ UNCHANGED <<call, modelLoaded>>

CallAssembleRiskReport ==
    /\ call.op = "assemble_risk_report"
    /\ ~ret.done
    /\ ret' = [done |-> TRUE,
               value |-> assemble_risk_report(call.historical_prices,
                             call.overall_sentiment_score)]
    /\ UNCHANGED <<call, modelLoaded>>

CallComputeDailyReturns ==
    /\ call.op = "compute_daily_returns"
    /\ ~ret.done
    /\ ret' = [done |-> TRUE, value |-> compute_daily_returns(call.prices)]
    /\ UNCHANGED <<call, modelLoaded>>

CallComputeVolatility ==
    /\ call.op = "compute_volatility"
    /\ ~ret.done
    /\ ret' = [done |-> TRUE, value |-> compute_volatility(call.prices)]
    /\ UNCHANGED <<call, modelLoaded>>

CallComputeShortTermTrend ==
    /\ call.op = "compute_short_term_trend"
    /\ ~ret.done
    /\ ret' = [done |-> TRUE,
               value |-> compute_short_term_trend(call.prices, call.days)]
    /\ UNCHANGED <<call, modelLoaded>>

Next ==
    \/ CallRiskLevel
    \/ CallRecommendAction
    \/ CallAssembleRiskReport
    \/ CallComputeDailyReturns
    \/ CallComputeVolatility
    \/ CallComputeShortTermTrend

Spec == Init /\ [][Next]_vars

---------------------------------------------------------------------------
(* The sentiment aggregator and the HTTP handlers *)

Labels == {"positive", "neutral", "negative"}
Confs == {(70 * ConfScale) \div 100, (9199 * ConfScale) \div 10000,
          ConfScale}
Predictions == [label : Labels, score : Confs]

ArticlesOf(n) == [i \in 1..n |-> i]

\* what the classifier does in a call on n >= 1 articles
ClassifierRuns(n) ==
    {[outcome |-> o, predictions |-> << >>] :
        o \in {"load_error", "predict_error"}}
    \cup {[outcome |-> "ok", predictions |-> ps] : ps \in [1..n -> Predictions]}

NoClassifier == [outcome |-> "ok", predictions |-> << >>]

\* what the news fetch and the classifier do in one request
NewsRuns ==
    {[news |-> [raises |-> TRUE, articles |-> << >>],
      classifier |-> NoClassifier],
     [news |-> [raises |-> FALSE, articles |-> << >>],
      classifier |-> NoClassifier]}
    \cup UNION {{[news |-> [raises |-> FALSE, articles |-> ArticlesOf(n)],
                  classifier |-> c] : c \in ClassifierRuns(n)} :
                    n \in 1..MaxArticles}

Tickers == {<< >>, <<"A", "A", "P", "L">>, <<"A", "1">>,
            [i \in 1..11 |-> "A"]}
ValidTicker == <<"A", "A", "P", "L">>

IntParam(v) == [ok |-> TRUE, value |-> v]
BadParam == [ok |-> FALSE, value |-> 0]

DaysParams == {BadParam} \cup {IntParam(v) : v \in {6, 7, 30, 365, 366}}
LimitParams == {BadParam} \cup {IntParam(v) : v \in {0, 1, 10, 50, 51}}
DaysBackParams == {BadParam} \cup {IntParam(v) : v \in {0, 1, 7, 30, 31}}

\* chart data of the requests: a flat series, and a rising one whose
\* volatility lies just below 0.030
ChartSeries == {<<10000, 10000>>, <<10000, 10000, 10424>>}

RiskRequest(ticker, days, chart_data, run, current_price) ==
    [op |-> "risk", ticker |-> ticker, days |-> days,
     chart_data |-> chart_data, news |-> run.news,
     classifier |-> run.classifier, current_price |-> current_price]

SentimentRequest(ticker, limit, days_back, run) ==
    [op |-> "sentiment", ticker |-> ticker, limit |-> limit,
     days_back |-> days_back, news |-> run.news,
     classifier |-> run.classifier]

QuietRun == [news |-> [raises |-> FALSE, articles |-> << >>],
             classifier |-> NoClassifier]

ApiCalls ==
    {[op |-> "analyze_headlines", articles |-> r.news.articles,
      classifier |-> r.classifier] : r \in {x \in NewsRuns : ~x.news.raises}}
    \cup {RiskRequest(t, d, c, QuietRun, Null) :
            t \in Tickers, d \in DaysParams,
            c \in {Null, Some(<< >>), Some(<<10000, 10000>>)}}
    \cup {RiskRequest(ValidTicker, IntParam(30), Some(c), r, Some(10000)) :
            c \in ChartSeries, r \in NewsRuns}
    \cup {SentimentRequest(t, l, d, QuietRun) :
            t \in Tickers, l \in LimitParams, d \in DaysBackParams}
    \cup {SentimentRequest(ValidTicker, IntParam(10), IntParam(7), r) :
            r \in NewsRuns}

InitApi ==
    /\ call \in ApiCalls
    /\ ret = Pending
    /\ modelLoaded \in BOOLEAN
    \* a cached model is never loaded again, so loading cannot fail
    /\ modelLoaded => call.classifier.outcome # "load_error"

CallAnalyzeHeadlines ==
    /\ call.op = "analyze_headlines"
    /\ ~ret.done
    /\ LET r == analyze_headlines(call.articles, modelLoaded, call.classifier)
       IN  /\ ret' = [done |-> TRUE, raised |-> r.raised, value |-> r.value,
                      predicted |-> r.predicted,
                      mean_signed |-> r.mean_signed,
                      overall_score |-> r.overall_score]
           /\ modelLoaded' = r.loaded
    /\ UNCHANGED call

GetRisk ==
    /\ call.op = "risk"
    /\ ~ret.done
    /\ LET r == risk(call, modelLoaded)
       IN  /\ ret' = [done |-> TRUE, status |-> r.status, body |-> r.body,
                      predicted |-> r.predicted]
           /\ modelLoaded' = r.loaded
    /\ UNCHANGED call

GetSentiment ==
    /\ call.op = "sentiment"
    /\ ~ret.done
    /\ LET r == sentiment(call, modelLoaded)
       IN  /\ ret' = [done |-> TRUE, status |-> r.status, body |-> r.body,
                      predicted |-> r.predicted]
           /\ modelLoaded' = r.loaded
    /\ UNCHANGED call

NextApi ==
    \/ CallAnalyzeHeadlines
    \/ GetRisk
    \/ GetSentiment

SpecApi == InitApi /\ [][NextApi]_vars

---------------------------------------------------------------------------
(* Claims about backend/models/risk.py, checked under Spec *)

Returned(op) == call.op = op /\ ret.done

\* the bucket tables of the claims, by counting the thresholds a value
\* lies strictly beyond
BucketS(sent) ==
    Cardinality({h \in {52, 55, 70} : sent > SentThreshold(h)})
        - Cardinality({h \in {30, 45, 48} : sent < SentThreshold(h)})

BucketT(trend) ==
    Cardinality({k \in {5, 20, 50} : trend > TrendThreshold(k)})
        - Cardinality({k \in {5, 20, 50} : trend < -TrendThreshold(k)})

IsHighVol(vol) == vol >= (30 * VolScale) \div 1000
IsLowVol(vol) == vol < (12 * VolScale) \div 1000

AdjustA(running, vol) ==
    IF IsHighVol(vol) THEN (IF running > 0 THEN -2 ELSE -1)
    ELSE IF IsLowVol(vol) THEN (IF running > 0 THEN 1 ELSE 0)
    ELSE 0

\* the running score S + T of a recommend_action call with a sentiment
\* (a missing sentiment counted as 0.5)
RunningOf(c) ==
    BucketS(IF c.overall_sentiment_score = Null THEN SentScale \div 2
            ELSE c.overall_sentiment_score[1])
        + BucketT(c.short_term_trend)

\* C1: for every volatility, sentiment in [0,1] and trend, recommend_action
\* ends with score S + T + A and returns Buy iff that score is >= 2, Sell
\* iff it is <= -2, Hold otherwise; every bucket comparison is strict, so a
\* value on a threshold falls in the bucket of smaller magnitude, and final
\* scores of exactly +1 or -1 give Hold.
C1_ScoreAndDecision ==
    (Returned("recommend_action") /\ call.overall_sentiment_score # Null) =>
        LET sent == call.overall_sentiment_score[1]
            trend == call.short_term_trend
            final == RunningOf(call) + AdjustA(RunningOf(call), call.volatility)
        IN  /\ ret.score = final
            /\ (ret.value = "Buy") <=> (final >= 2)
            /\ (ret.value = "Sell") <=> (final <= -2)
            /\ (ret.value = "Hold") <=> (final > -2 /\ final < 2)
            /\ (final \in {-1, 1}) => ret.value = "Hold"
            /\ sent = SentThreshold(70) => BucketS(sent) = 2
            /\ sent = SentThreshold(55) => BucketS(sent) = 1
            /\ sent \in {SentThreshold(52), SentThreshold(48)}
                    => BucketS(sent) = 0
            /\ sent = SentThreshold(45) => BucketS(sent) = -1
            /\ sent = SentThreshold(30) => BucketS(sent) = -2
            /\ Abs(trend) = TrendThreshold(50) => Abs(BucketT(trend)) = 2
            /\ Abs(trend) = TrendThreshold(20) => Abs(BucketT(trend)) = 1
            /\ Abs(trend) = TrendThreshold(5) => BucketT(trend) = 0

\* sentiment exactly 0.70 (+2, not +3), trend exactly -0.002 (-1, not -2),
\* Medium risk: final score +1, Hold
C1_Witness ==
    /\ Returned("recommend_action")
    /\ call.overall_sentiment_score = Some(SentThreshold(70))
    /\ call.short_term_trend = -TrendThreshold(20)
    /\ ~IsHighVol(call.volatility) /\ ~IsLowVol(call.volatility)
    /\ ret.score = 1
    /\ ret.value = "Hold"

InNeutralBand(c) ==
    /\ \/ c.overall_sentiment_score = Null
       \/ /\ c.overall_sentiment_score # Null
          /\ c.overall_sentiment_score[1] >= SentThreshold(48)
          /\ c.overall_sentiment_score[1] <= SentThreshold(52)
    /\ c.short_term_trend >= -TrendThreshold(5)
    /\ c.short_term_trend <= TrendThreshold(5)

\* C2 as stated: neutral sentiment (or None) and neutral trend end with
\* score 0 and Hold at every volatility, High-risk ones included.
C2_Original ==
    (Returned("recommend_action") /\ InNeutralBand(call)) =>
        (ret.score = 0 /\ ret.value = "Hold")

\* C2 amended: neutral sentiment (or None) and neutral trend return Hold at
\* every volatility; the score ends at 0 under Low and Medium risk and at
\* -1 under High risk.
C2_NeutralIsHold ==
    (Returned("recommend_action") /\ InNeutralBand(call)) =>
        /\ ret.value = "Hold"
        /\ ret.score = (IF IsHighVol(call.volatility) THEN -1 ELSE 0)

C2_Witness ==
    /\ Returned("recommend_action")
    /\ call.overall_sentiment_score = Some(SentScale \div 2)
    /\ call.short_term_trend = 0
    /\ IsHighVol(call.volatility)
    /\ ret.score = -1
    /\ ret.value = "Hold"

MediumVol == (20 * VolScale) \div 1000

\* C3: the volatility adjustment never raises a non-positive running
\* score.  High risk lowers the score by 2 if the running score is > 0 and
\* by 1 otherwise, so a Sell at Medium risk is a Sell at High risk and a Buy
\* at High risk needs a running score >= 4.  Low risk adds 1 only to a
\* running score > 0, so a running score <= 0 gets the Medium-risk
\* recommendation.
C3_AdjustmentNeverLiftsNonPositive ==
    Returned("recommend_action") =>
        LET running == RunningOf(call)
            atMedium == recommend_action(MediumVol,
                            call.overall_sentiment_score,
                            call.short_term_trend)
        IN  /\ running <= 0 => ret.score <= running
            /\ IsHighVol(call.volatility) =>
                  /\ ret.score = running - (IF running > 0 THEN 2 ELSE 1)
                  /\ ret.score < running
                  /\ atMedium = "Sell" => ret.value = "Sell"
                  /\ ret.value = "Buy" => running >= 4
            /\ IsLowVol(call.volatility) =>
                  /\ ret.score = running + (IF running > 0 THEN 1 ELSE 0)
                  /\ running <= 0 => ret.value = atMedium

\* Low risk with a running score of -2: the score stays -2 and the answer
\* is Sell, as at Medium risk
C3_Witness ==
    /\ Returned("recommend_action")
    /\ IsLowVol(call.volatility)
    /\ RunningOf(call) = -2
    /\ ret.score = -2
    /\ ret.value = "Sell"

\* C4: a missing sentiment is treated exactly as 0.5, by recommend_action
\* and by assemble_risk_report.
C4_NoneIsNeutralPrior ==
    /\ (Returned("recommend_action") /\ call.overall_sentiment_score = Null)
          => ret.value = recommend_action(call.volatility,
                             Some(SentScale \div 2), call.short_term_trend)
    /\ (Returned("assemble_risk_report")
            /\ call.overall_sentiment_score = Null)
          => ret.value = assemble_risk_report(call.historical_prices,
                             Some(SentScale \div 2))

\* a report for a rising series with no sentiment: Buy on the trend alone
C4_Witness ==
    /\ Returned("assemble_risk_report")
    /\ call.overall_sentiment_score = Null
    /\ call.historical_prices # << >>
    /\ ret.value.recommendation = "Buy"

C6_ScoringUsesUnroundedValues ==
    (Returned("assemble_risk_report") /\ call.historical_prices # << >>) =>
        LET vol == compute_volatility(call.historical_prices)
            trend == compute_short_term_trend(call.historical_prices, 5)
        IN  /\ ret.value.risk_level
                  = Some(risk_level_from_volatility(vol,
                             (12 * VolScale) \div 1000,
                             (30 * VolScale) \div 1000))
            /\ ret.value.recommendation
                  = recommend_action(vol, call.overall_sentiment_score, trend)
            /\ ret.value.volatility = Some(PyRound(vol, 10))
            /\ ret.value.short_term_trend = Some(PyRound(trend, 10))

\* what the displayed values would give, were they fed to the scoring
FromDisplayed(report, sent) ==
    [risk_level |-> risk_level_from_volatility(report.volatility[1] * 10,
                        (12 * VolScale) \div 1000, (30 * VolScale) \div 1000),
     recommendation |-> recommend_action(report.volatility[1] * 10, sent,
                        report.short_term_trend[1] * 10)]

\* a report whose displayed volatility lies across a risk threshold from the
\* unrounded one, and whose recommendation differs from the displayed
\* values' recommendation
C6_Witness ==
    /\ Returned("assemble_risk_report")
    /\ call.historical_prices # << >>
    /\ FromDisplayed(ret.value, call.overall_sentiment_score).risk_level
          # ret.value.risk_level[1]
    /\ FromDisplayed(ret.value, call.overall_sentiment_score).recommendation
          # ret.value.recommendation

\* C7: for an empty series and every sentiment (None included) the report
\* has null volatility, risk_level and short_term_trend, recommendation
\* Hold and a note; the sentiment is not scored.
C7_EmptySeriesReport ==
    (Returned("assemble_risk_report") /\ call.historical_prices = << >>) =>
        /\ ret.value.volatility = Null
        /\ ret.value.risk_level = Null
        /\ ret.value.short_term_trend = Null
        /\ ret.value.recommendation = "Hold"
        /\ ret.value.note # Null

\* an empty series with a sentiment that scoring would turn into Sell
C7_Witness ==
    /\ Returned("assemble_risk_report")
    /\ call.historical_prices = << >>
    /\ call.overall_sentiment_score # Null
    /\ recommend_action(0, call.overall_sentiment_score, 0) = "Sell"
    /\ ret.value.recommendation = "Hold"

---------------------------------------------------------------------------
(* Claims about the sentiment aggregator and the handlers, checked under   *)
(* SpecApi                                                                 *)

\* the signed confidences of a list of article sentiments, summed
RECURSIVE SignedTotal(_)
SignedTotal(ps) ==
    IF ps = << >> THEN 0
    ELSE (CASE Head(ps).label = "positive" -> Head(ps).score
            [] Head(ps).label = "negative" -> -Head(ps).score
            [] OTHER -> 0)
         + SignedTotal(Tail(ps))

\* the mean of the signed confidences, exact on the MeanScale grid
ExactMeanSigned(ps) ==
    (SignedTotal(ps) * (MeanScale \div ConfScale)) \div Len(ps)

\* (mean_signed + 1) / 2 before any rounding, on the SentScale grid
UnroundedScore(ps) == ExactMeanSigned(ps) + MeanScale

\* the call analysed at least one article and the classifier answered
Analysed(c) ==
    /\ ~c.news.raises
    /\ c.news.articles # << >>
    /\ c.classifier.outcome = "ok"

\* C8: the 4-decimal rounding of the aggregated score is presentation-only:
\* the overall label is decided from the unrounded mean_signed, and the
\* recommendation /api/risk derives from analyze_headlines' overall score
\* is the recommendation for the unrounded score (mean_signed + 1) / 2.
C8_RoundingIsPresentationOnly ==
    /\ (Returned("analyze_headlines") /\ call.articles # << >>
            /\ ~ret.raised) =>
          LET m == ExactMeanSigned(call.classifier.predictions)
          IN  ret.value.overall.label
                = Some(IF 100 * m >= 15 * MeanScale THEN "positive"
                       ELSE IF 100 * m <= -15 * MeanScale THEN "negative"
                       ELSE "neutral")
    /\ (Returned("risk") /\ ret.status = 200 /\ Analysed(call)) =>
          ret.body.recommendation
            = recommend_action(
                  compute_volatility(call.chart_data[1]),
                  Some(UnroundedScore(call.classifier.predictions)),
                  compute_short_term_trend(call.chart_data[1], 5))

\* C9: for a non-empty list of article sentiments, mean_signed is the mean
\* of the signed confidences and lies in [-1, 1]; the overall score
\* (mean_signed + 1) / 2 lies in [0, 1]; the label is positive iff
\* mean_signed >= 0.15, negative iff mean_signed <= -0.15, neutral
\* otherwise; confidences that cancel give neutral and score 0.5.
C9_AggregateLabelAndScore ==
    (Returned("analyze_headlines") /\ call.articles # << >> /\ ~ret.raised) =>
        LET ps == call.classifier.predictions
            total == SignedTotal(ps)
            m == ret.mean_signed[1]
            label == ret.value.overall.label
            score == ret.value.overall.score
        IN  /\ Len(ps) * m = total * (MeanScale \div ConfScale)
            /\ -MeanScale <= m /\ m <= MeanScale
            /\ 2 * ret.overall_score[1]
                  = (m + MeanScale) * (SentScale \div MeanScale)
            /\ 0 <= ret.overall_score[1] /\ ret.overall_score[1] <= SentScale
            /\ 0 <= score[1] /\ score[1] <= SentScale
            /\ (label = Some("positive")) <=> (100 * m >= 15 * MeanScale)
            /\ (label = Some("negative")) <=> (100 * m <= -15 * MeanScale)
            /\ (label = Some("neutral"))
                  <=> (100 * m < 15 * MeanScale /\ 100 * m > -15 * MeanScale)
            /\ total = 0 =>
                  (label = Some("neutral") /\ score = Some(SentScale \div 2))

\* mean_signed exactly 0.15 (positive 1.0 and negative 0.7): positive
C9_Witness ==
    /\ Returned("analyze_headlines")
    /\ ~ret.raised
    /\ Len(call.articles) = 2
    /\ 100 * ret.mean_signed[1] = 15 * MeanScale
    /\ ret.value.overall.label = Some("positive")

NoArticlesFound(c) ==
    /\ c.op = "sentiment"
    /\ c.limit.ok /\ c.limit.value >= 1 /\ c.limit.value <= 50
    /\ c.days_back.ok /\ c.days_back.value >= 1 /\ c.days_back.value <= 30
    /\ c.ticker = ValidTicker
    /\ ~c.news.raises
    /\ c.news.articles = << >>

\* C10: aggregating an empty article list returns label null, score null
\* and an empty per-article list, without invoking the classifier or
\* loading its model; /api/sentiment returns the same null label and score
\* when no articles are found.
C10_EmptyInputSkipsClassifier ==
    /\ []((Returned("analyze_headlines") /\ call.articles = << >>) =>
            /\ ~ret.raised
            /\ ret.value.per_article = << >>
            /\ ret.value.overall.label = Null
            /\ ret.value.overall.score = Null
            /\ ~ret.predicted)
    /\ []((ret.done /\ NoArticlesFound(call)) =>
            /\ ret.status = 200
            /\ ret.body.per_article = << >>
            /\ ret.body.overall.label = Null
            /\ ret.body.overall.score = Null
            /\ ~ret.predicted)
    /\ [][((call.op = "analyze_headlines" /\ call.articles = << >>)
              \/ NoArticlesFound(call))
            => modelLoaded' = modelLoaded]_vars

\* an empty list aggregated while no model is cached: still none cached
C10_Witness ==
    /\ Returned("analyze_headlines")
    /\ call.articles = << >>
    /\ ~modelLoaded
    /\ ret.value.overall.score = Null

---------------------------------------------------------------------------
(* Claims about the numeric helpers of backend/models/risk.py, checked     *)
(* under Spec                                                              *)

\* C11: compute_daily_returns is total and length-preserving: a series of
\* length n (zero and negative prices included) gives max(0, n - 1)
\* returns; return i is prices[i+1] / prices[i] - 1 when prices[i] # 0 (to
\* the last digit of the returns' grid) and 0.0 when prices[i] = 0.
C11_ReturnsTotalAndLengthPreserving ==
    Returned("compute_daily_returns") =>
        LET prices == call.prices
            n == Len(prices)
            returns == ret.value
        IN  /\ Len(returns) = (IF n >= 1 THEN n - 1 ELSE 0)
            /\ \A i \in 1..Len(returns) :
                  LET prev == prices[i]
                      cur == prices[i + 1]
                      \* (return + 1) * prev - cur, on the returns' grid
                      err == (returns[i] + RetScale) * prev - cur * RetScale
                  IN  IF prev = 0 THEN returns[i] = 0
                      ELSE Abs(err) < Abs(prev)

\* a series with a zero price followed by a non-zero one, and a negative
\* price: the return after the zero is 0.0
C11_Witness ==
    /\ Returned("compute_daily_returns")
    /\ Len(call.prices) = 3
    /\ call.prices[1] < 0
    /\ call.prices[2] = 0
    /\ call.prices[3] > 0
    /\ ret.value = <<-RetScale, 0>>

\* the sum of the squared deviations of xs from the mean numpy subtracts
SquaredDeviations(xs) ==
    LET mean == np_arrmean(xs)
    IN  SeqSum([i \in 1..Len(xs) |-> (xs[i] - mean) * (xs[i] - mean)])

\* v, on the volatility grid, is the square root of q, on the grid of the
\* returns squared (to the last digit of the returns' grid)
IsRootOf(v, q) ==
    LET w == v \div (VolScale \div RetScale)
    IN  w * w <= q /\ q < (w + 1) * (w + 1)

AllEqual(xs) == \A i, j \in 1..Len(xs) : xs[i] = xs[j]

AllZero(xs) == \A i \in 1..Len(xs) : xs[i] = 0

LastN(prices, n) == SubSeq(prices, Len(prices) - n + 1, Len(prices))

\* n^2 * sum((i - x_mean) * (y[i] - y_mean)) over the positions 0..n-1 of y
CentredCross(y) ==
    LET n == Len(y)
        sx == (n * (n - 1)) \div 2
        sy == SeqSum(y)
    IN  SeqSum([i \in 1..n |-> (n * (i - 1) - sx) * (n * y[i] - sy)])

\* n^2 * sum((i - x_mean)^2) over the positions 0..n-1
CentredSquare(n) ==
    LET sx == (n * (n - 1)) \div 2
    IN  SeqSum([i \in 1..n |-> (n * (i - 1) - sx) * (n * (i - 1) - sx)])

\* the least-squares slope of y over 0..n-1 divided by the mean of y, or by
\* 1.0 when that mean is 0, on the trend's grid
SlopeOverMean(y) ==
    LET n == Len(y)
        sy == SeqSum(y)
    IN  IF sy # 0 THEN QuotScaled(CentredCross(y) * n, CentredSquare(n) * sy, 7)
        ELSE QuotScaled(CentredCross(y), CentredSquare(n), 7)

\* y is an arithmetic progression with step d
IsProgression(y, d) == \A i \in 1..(Len(y) - 1) : y[i + 1] - y[i] = d

\* C13: compute_short_term_trend(prices, window) is 0.0 when
\* n = min(window, len(prices)) < 2; otherwise it is the least-squares slope
\* of the last n prices over the positions 0..n-1 divided by their mean
\* (by 1.0 when the mean is exactly 0).  Hence a window of equal prices gives
\* 0.0, an arithmetic progression with step d gives d / mean, and changing
\* any price before the last n leaves the result unchanged.
C13_TrendOfLastWindow ==
    Returned("compute_short_term_trend") =>
        LET prices == call.prices
            n == Min(call.days, Len(prices))
        IN  IF n < 2 THEN ret.value = 0
            ELSE
              LET y == LastN(prices, n)
                  sy == SeqSum(y)
              IN  /\ ret.value = SlopeOverMean(y)
                  /\ IsProgression(y, 0) => ret.value = 0
                  /\ \A d \in -4..4 :
                        IsProgression(y, d) =>
                            ret.value = (IF sy # 0 THEN QuotScaled(d * n, sy, 7)
                                         ELSE d * TrendScale)
                  /\ \A i \in 1..(Len(prices) - n) : \A v \in SignedPrices :
                        compute_short_term_trend([prices EXCEPT ![i] = v],
                                                 call.days) = ret.value

\* a window of three prices rising by 2 a day around a mean of 1, behind an
\* older price that is off the line: the trend is 2.0
C13_Witness ==
    /\ Returned("compute_short_term_trend")
    /\ call.prices = <<0, -1, 1, 3>>
    /\ call.days = 3
    /\ ret.value = 2 * TrendScale

---------------------------------------------------------------------------
(* Claims about GET /api/risk, checked under SpecApi                       *)

\* the request passes the ticker, days and price-list checks of risk()
PricesFetched(c) ==
    /\ c.op = "risk"
    /\ c.days.ok
    /\ c.days.value >= 7
    /\ c.days.value <= 365
    /\ c.ticker = ValidTicker
    /\ c.chart_data # Null
    /\ c.chart_data # Some(<< >>)

\* the news fetch raises, finds nothing, or the classifier fails to load or
\* to predict
NoSentimentObtained(c) ==
    \/ c.news.raises
    \/ c.news.articles = << >>
    \/ c.classifier.outcome # "ok"

\* C14: in /api/risk, once ticker and days are valid and a non-empty price
\* list was fetched, the sentiment step never fails the request: when the
\* news fetch or the analysis raises, or no articles are found, the answer
\* is still the 200 report, with sentiment_score_used null and the
\* recommendation that the neutral sentiment 0.5 gives.
C14_SentimentStepNeverFailsRisk ==
    (Returned("risk") /\ PricesFetched(call) /\ NoSentimentObtained(call)) =>
        LET neutral == assemble_risk_report(call.chart_data[1],
                                            Some(SentScale \div 2))
        IN  /\ ret.status = 200
            /\ ret.body.sentiment_score_used = Null
            /\ ret.body.recommendation = neutral.recommendation
            /\ ret.body.risk_level = neutral.risk_level
            /\ ret.body.volatility = neutral.volatility
            /\ ret.body.short_term_trend = neutral.short_term_trend

\* the classifier fails while predicting the headlines of a rising series:
\* the request still answers 200, without a sentiment score
C14_Witness ==
    /\ Returned("risk")
    /\ PricesFetched(call)
    /\ ~call.news.raises
    /\ call.news.articles # << >>
    /\ call.classifier.outcome = "predict_error"
    /\ call.chart_data = Some(<<10000, 10000, 10424>>)
    /\ ret.status = 200
    /\ ret.body.sentiment_score_used = Null
    /\ ret.body.risk_level = Some("Medium")
    /\ ret.body.recommendation = "Buy"

---------------------------------------------------------------------------
(* A relational claim about recommend_action, checked under Spec           *)

\* the order Sell < Hold < Buy
Rank(recommendation) ==
    IF recommendation = "Sell" THEN 0
    ELSE IF recommendation = "Hold" THEN 1
    ELSE 2

\* the order Low < Medium < High of the default risk levels
LevelRank(vol) ==
    IF IsLowVol(vol) THEN 0 ELSE IF IsHighVol(vol) THEN 2 ELSE 1

\* C15: recommend_action is monotone under Sell < Hold < Buy: at a fixed
\* volatility, a higher sentiment score (same trend) or a higher trend (same
\* sentiment) never gives a lower recommendation, and at a fixed sentiment
\* and trend a higher risk level (Low, Medium, High) never gives a higher
\* recommendation.
C15_RecommendationMonotone ==
    Returned("recommend_action") =>
        LET vol == call.volatility
            sent == call.overall_sentiment_score
            trend == call.short_term_trend
        IN  /\ sent # Null =>
                  \A s2 \in SentValues :
                      s2 >= sent[1] =>
                          Rank(recommend_action(vol, Some(s2), trend))
                              >= Rank(ret.value)
            /\ \A t2 \in Trends :
                  t2 >= trend =>
                      Rank(recommend_action(vol, sent, t2)) >= Rank(ret.value)
            /\ \A v2 \in Vols :
                  LevelRank(v2) >= LevelRank(vol) =>
                      Rank(recommend_action(v2, sent, trend)) <= Rank(ret.value)

\* High volatility and a running score of 0 (Hold, final score -1): a
\* sentiment one bucket higher makes the running score positive, the
\* penalty grows from 1 to 2, and the recommendation stays Hold
C15_Witness ==
    /\ Returned("recommend_action")
    /\ IsHighVol(call.volatility)
    /\ call.overall_sentiment_score # Null
    /\ RunningOf(call) = 0
    /\ ret.score = -1
    /\ ret.value = "Hold"
    /\ \E s2 \in SentValues :
          /\ s2 > call.overall_sentiment_score[1]
          /\ BucketS(s2) = BucketS(call.overall_sentiment_score[1]) + 1
          /\ recommend_score(call.volatility, Some(s2),
                             call.short_term_trend) = -1

===========================================================================
